---------------------------- MODULE Spec2Model ----------------------------
(***************************************************************************)
(* Model of the rear-end collision detector sql2collisions.py, of the pure *)
(* functions it is built from, and of the importer vec2sql.py that fills   *)
(* the table it reads.                                                     *)
(*                                                                         *)
(* Processes.  The detector and the importer are two processes over one    *)
(* SQLite database.  An import is one transaction: from its first write to *)
(* its commit it holds the write lock, and readers see the table as it was *)
(* before until the commit; once its changes outgrow the page cache it     *)
(* holds the exclusive lock, which keeps readers out as well.  Every       *)
(* access of the detector to the database is a step of its own; its insert *)
(* and the commit that follows are one step, since the importer waits for  *)
(* that commit.  An access of the detector that the import's lock refuses  *)
(* either waits until the import has committed (the commit step comes      *)
(* first) or raises "database is locked" when the busy timeout has passed  *)
(* (pc = "locked").                                                        *)
(*                                                                         *)
(* Units.  Coordinates are integers counting eightieths of a length unit.  *)
(* The positions of the recorded tracks, of the imported samples and of    *)
(* the network lie on the grid of the multiples of Grid = 5, that is of    *)
(* the sixteenths of a length unit (model 20 is the float 0.25): every     *)
(* coordinate, sum and difference the code computes on them is exact in    *)
(* binary floating point, so the model's integer arithmetic and the code's *)
(* float arithmetic agree.  The lane tolerance 0.1 of EdgeLookup.find is 8 *)
(* of these units, and the coordinate -8 is the float -0.1: with the       *)
(* transformer of the model, omnet2traci computes (-0.1 + 0.0625) - 0.0625 *)
(* = -0.1 exactly, and the distance from (-0.1, y) to a lane that starts   *)
(* at (0, y) is sqrt(0.1 * 0.1) = 0.1 exactly, the tolerance itself.  The  *)
(* other off-grid coordinate of the model, -18, is the float -0.225 and is *)
(* never looked up.  Speeds count eightieths of a length unit per second,  *)
(* so speed * ttc is a radius in the same units.  Sample times are         *)
(* integers counting ticks, TicksPerSecond ticks to the second, so that a  *)
(* whole second is a multiple of TicksPerSecond.  Euclidean distances are  *)
(* only ever compared by the code; the model compares their squares (sqrt  *)
(* is strictly increasing), and a distance to a polyline is kept as an     *)
(* exact fraction.                                                         *)
(***************************************************************************)
EXTENDS Integers, Sequences, FiniteSets, Bags, TLC

VARIABLES
    results,        \* the telemetry table "results" (a set of rows)
    collisions,     \* the output table "collisions" (a bag of rows)
    args,           \* the parsed command line of the current detection run
    pc,             \* position of main(): idle, start_time, end_time, instants, pair,
                    \* pair_end, vehicle, nearby, or how it
                    \* ended: done, error (ValueError), crashed (TypeError), locked
    instants,       \* main(): the list "instants"
    k,              \* main(): index of the current (prev_instant, curr_instant) in zip
    snapshot,       \* main(): the Snapshot of the current pair (its _data dict)
    pending,        \* main(): vehicles of snapshot.items() not yet iterated
    vehicle_id,     \* main(): the iterated vehicle
    vehicle_lane_id,\* main(): the lane the iterated vehicle resolved to
    nearby,         \* main(): candidates of ph.find(...) not yet iterated
    found,          \* history: the ids ph.find(...) returned for the iterated vehicle
    emitted,        \* history: records the current run executed an insert for
    processed,      \* history: the pairs the current run built a Snapshot for
    looked,         \* history: <<vehicle, position>> the lane lookup was applied to, in order
    built,          \* history: the Snapshots the current run built, in order
    runs,           \* number of detection runs started so far
    prevArgs,       \* history: command line of the previous run
    prevStore,      \* history: the collisions table when the previous run ended
    fin,            \* is_following: the four positions it is called with
    fout,           \* is_following: its results in both directions, or "none"
    tin,            \* CoordTransformer: a configuration and a point
    tout,           \* CoordTransformer: the two round trips of the point
    read,           \* history: the results table as the current run found it
    prevRead,       \* history: the results table as the previous run found it
    imports,        \* number of .vec files whose import has begun
    importing,      \* the .vec file whose import holds the write lock, or NoFile
    exclusive,      \* the import holds the exclusive lock
    tableExists,    \* the database has a collisions table
    start_data,     \* Snapshot.__init__: the dict start_data, between its two SELECTs
    seen,           \* history: per pair, the results table at its first and second SELECT
    changed,        \* history: an import was committed since the current run began
    prevChanged     \* history: an import was committed between the last two run starts

vars == <<results, collisions, args, pc, instants, k, snapshot, pending,
          vehicle_id, vehicle_lane_id, nearby, found, emitted, processed,
          looked, built, runs, prevArgs, prevStore, fin, fout, tin, tout,
          read, prevRead, imports, importing, exclusive, tableExists, start_data, seen,
          changed, prevChanged>>

transformVars == <<tin, tout>>

detectorVars == <<results, collisions, args, pc, instants, k, snapshot, pending,
                  vehicle_id, vehicle_lane_id, nearby, found, emitted, processed,
                  looked, built, runs, prevArgs, prevStore, read, prevRead, imports,
                  importing, exclusive, tableExists, start_data, seen, changed,
                  prevChanged>>

followingVars == <<fin, fout>>

\* Python's None and SQL's NULL: a value no time, coordinate or speed takes.
None == -1

-----------------------------------------------------------------------------
(* Points and distances (shapely Point, Point.distance).                   *)

Point(x, y) == <<x, y>>

\* Model units in a sixteenth of a length unit.
Grid == 5

\* The point x sixteenths right and y sixteenths down.
G(x, y) == Point(Grid * x, Grid * y)

Sub(p, q) == <<p[1] - q[1], p[2] - q[2]>>

Dot(a, b) == a[1] * b[1] + a[2] * b[2]

Cross(a, b) == a[1] * b[2] - a[2] * b[1]

\* The square of p.distance(q).
Distance2(p, q) == Dot(Sub(p, q), Sub(p, q))

-----------------------------------------------------------------------------
(* is_following                                                            *)

\* A plausible slip: the second test compares the end gap strictly.
is_following_strict(up, uc, vp, vc) ==
    /\ Distance2(up, vc) > Distance2(up, vp)
    /\ Distance2(uc, vc) < Distance2(up, vp)

is_following(up, uc, vp, vc) ==
    /\ Distance2(up, vc) > Distance2(up, vp)
    /\ Distance2(uc, vc) <= Distance2(up, vp)

-----------------------------------------------------------------------------
(* Small helpers on sets and sequences.                                    *)

Min(S) == CHOOSE x \in S : \A y \in S : x <= y

Max(S) == CHOOSE x \in S : \A y \in S : y <= x

\* The elements of a finite set of integers in ascending order.
RECURSIVE Ascending(_)
Ascending(S) ==
    IF S = {} THEN <<>> ELSE <<Min(S)>> \o Ascending(S \ {Min(S)})

Range(s) == {s[i] : i \in 1..Len(s)}

-----------------------------------------------------------------------------
(* CoordTransformer                                                        *)

CoordTransformer(topleft, bottomright, margin) ==
    [dimensions  |-> Point(bottomright[1] - topleft[1], bottomright[2] - topleft[2]),
     topleft     |-> topleft,
     bottomright |-> bottomright,
     margin      |-> margin]

omnet2traci(xf, p) ==
    Point(p[1] + xf.topleft[1] - xf.margin,
          xf.dimensions[2] - (p[2] - xf.topleft[2]) + xf.margin)

\* A plausible slip: the return mapping shifts y without mirroring it.
traci2omnet_unmirrored(xf, p) ==
    Point(p[1] - xf.topleft[1] + xf.margin,
          p[2] - xf.topleft[2] + xf.margin)

traci2omnet(xf, p) ==
    Point(p[1] - xf.topleft[1] + xf.margin,
          xf.dimensions[2] - (p[2] - xf.topleft[2]) + xf.margin)

-----------------------------------------------------------------------------
(* The road network and EdgeLookup                                         *)

\* The lanes NetReader collects from the network file, in file order; the
\* shapes are in network (TraCI) coordinates.
Network ==
    << [edge_id |-> "e1", lane_id |-> "e1_0",
        points |-> <<G(0, 7), G(2, 7), G(3, 7)>>],
       [edge_id |-> "e1", lane_id |-> "e1_1",
        points |-> <<G(0, 4), G(3, 4)>>] >>

\* The --xform_* arguments of the run, in sixteenths: top-left (1,1),
\* bottom-right (5,6), margin 1.  Simulation-plane (x, y) is network-plane
\* (x, 7 sixteenths - y).
xformer == CoordTransformer(G(1, 1), G(5, 6), Grid)

\* Coordinates count eightieths of a length unit.
UnitsPerLength == 16 * Grid

\* EdgeLookup.find's default threshold 0.1, as the fraction 1/10 of a length
\* unit.
find_threshold == <<1, 10>>

\* A plausible slip: a distance equal to the threshold is refused as well.
AtOrBeyondThreshold(d2) ==
    find_threshold[2] * find_threshold[2] * d2[1]
        >= find_threshold[1] * find_threshold[1] * UnitsPerLength * UnitsPerLength * d2[2]

\* distance > threshold, for the squared distance d2 (a fraction, in squared
\* model units): d2 / 80^2 > (1/10)^2.
BeyondThreshold(d2) ==
    find_threshold[2] * find_threshold[2] * d2[1]
        > find_threshold[1] * find_threshold[1] * UnitsPerLength * UnitsPerLength * d2[2]

\* Fractions <<numerator, denominator>> with a positive denominator.
FracLess(a, b) == a[1] * b[2] < b[1] * a[2]

FracMin(a, b) == IF FracLess(b, a) THEN b ELSE a

\* The square of the distance from p to the segment a-b, as a fraction.
SegmentDistance2(p, a, b) ==
    LET d    == Sub(b, a)
        len2 == Dot(d, d)
        t    == Dot(Sub(p, a), d)
    IN  IF len2 = 0 \/ t <= 0 THEN <<Distance2(p, a), 1>>
        ELSE IF t >= len2 THEN <<Distance2(p, b), 1>>
        ELSE <<Cross(Sub(p, a), d) * Cross(Sub(p, a), d), len2>>

\* The square of LineString.distance(p): the least over the segments.
RECURSIVE LineDistance2From(_, _, _)
LineDistance2From(points, p, i) ==
    IF i = Len(points) - 1
    THEN SegmentDistance2(p, points[i], points[i + 1])
    ELSE FracMin(SegmentDistance2(p, points[i], points[i + 1]),
                 LineDistance2From(points, p, i + 1))

LineDistance2(points, p) == LineDistance2From(points, p, 1)

\* STRtree.nearest: a lane at the least distance from the point.  Among lanes
\* at the same least distance the tree's traversal decides; the model takes
\* the first in file order.
Nearest(lanes, p) ==
    LET d == [i \in 1..Len(lanes) |-> LineDistance2(lanes[i].points, p)]
        best(i) == \A j \in 1..Len(lanes) : ~FracLess(d[j], d[i])
    IN  lanes[Min({i \in 1..Len(lanes) : best(i)})]

ValueError == [raised |-> "ValueError"]

\* EdgeLookup.find(pos): the nearest lane, or ValueError when it is farther
\* than the threshold.
EdgeLookupFind(pos) ==
    LET traciPos == omnet2traci(xformer, pos)
        nearest  == Nearest(Network, traciPos)
        d2       == LineDistance2(nearest.points, traciPos)
    IN  IF BeyondThreshold(d2)
        THEN ValueError
        ELSE nearest

-----------------------------------------------------------------------------
(* ProximityHelper                                                         *)

\* ProximityHelper(data).find(pos, threshold) over data = snapshot.end().
\* pos.buffer(threshold) is a polygon inscribed in the circle of that radius
\* (empty when the radius is not positive) and STRtree.query returns every
\* indexed geometry whose bounding box meets the bounding box of the query
\* geometry: for indexed points, every point of the square of half-side
\* threshold around pos.
ProximityFind(data, pos, threshold) ==
    IF threshold <= 0 THEN {}
    ELSE {id \in DOMAIN data :
            /\ data[id][1] >= pos[1] - threshold
            /\ data[id][1] <= pos[1] + threshold
            /\ data[id][2] >= pos[2] - threshold
            /\ data[id][2] <= pos[2] + threshold}

\* The lists STRtree.query may return the set of hits in: the order is the
\* tree's.
Orderings(hits) ==
    {seq \in [1..Cardinality(hits) -> hits] :
        \A i \in 1..Cardinality(hits) : \A j \in 1..Cardinality(hits) :
            seq[i] = seq[j] => i = j}

-----------------------------------------------------------------------------
(* Snapshot                                                                *)

Vehicle(prev_pos, curr_pos, speed, controller) ==
    [prev_pos |-> prev_pos, curr_pos |-> curr_pos,
     speed |-> speed, controller |-> controller]

\* The rows Snapshot.__init__'s query returns for (run_id, seconds).
SnapshotRows(table, run_id, seconds) ==
    {row \in table :
        /\ row.run_id = run_id
        /\ row.seconds = seconds
        /\ row.mobility_posx # None
        /\ row.mobility_posy # None
        /\ row.appl_speed # None}

\* The table's primary key (node_id, run_id, seconds) leaves one row per id.
RowOf(rows, node_id) == CHOOSE row \in rows : row.node_id = node_id

\* Lines 164-167: the dict start_data of the rows of the first SELECT.
StartData(start_rows) ==
    [id \in {row.node_id : row \in start_rows} |->
        <<Point(RowOf(start_rows, id).mobility_posx, RowOf(start_rows, id).mobility_posy),
          RowOf(start_rows, id).controller>>]

\* Lines 169-172: the dict end_data of the rows of the second SELECT.
EndData(end_rows) ==
    [id \in {row.node_id : row \in end_rows} |->
        <<Point(RowOf(end_rows, id).mobility_posx, RowOf(end_rows, id).mobility_posy),
          RowOf(end_rows, id).appl_speed,
          RowOf(end_rows, id).controller>>]

\* A plausible slip: every vehicle of the end instant is kept, with its end
\* position standing in for a missing start position.
SnapshotOfEndOnly(sd, ed) ==
    [id \in DOMAIN ed |->
        Vehicle(IF id \in DOMAIN sd THEN sd[id][1] ELSE ed[id][1],
                ed[id][1], ed[id][2], ed[id][3])]

\* Lines 174-177: the vehicles in both start_data and end_data.
SnapshotOf(sd, ed) ==
    LET common_ids == DOMAIN sd \cap DOMAIN ed
    IN  [id \in common_ids |->
            Vehicle(sd[id][1], ed[id][1], ed[id][2], ed[id][3])]

\* Snapshot(cursor, run_id, start, end)._data, when the table does not change
\* between the two SELECTs.
Snapshot(table, run_id, start, end) ==
    SnapshotOf(StartData(SnapshotRows(table, run_id, start)),
               EndData(SnapshotRows(table, run_id, end)))

\* Snapshot.end(): (id, curr_pos) per vehicle, as the dict ProximityHelper keeps.
SnapshotEnd(snap) == [id \in DOMAIN snap |-> snap[id].curr_pos]

\* snapshot.items() iterates the dict in insertion order, the iteration order
\* of the set common_ids: ascending for the small integer ids of the model.
SnapshotItems(snap) == Ascending(DOMAIN snap)

-----------------------------------------------------------------------------
(* The collisions table                                                    *)

CollisionRow(leader, follower, seconds, lane_id) ==
    [leader_node_id |-> leader, follower_node_id |-> follower,
     seconds |-> seconds, lane_id |-> lane_id]

\* The primary key (leader_node_id, follower_node_id, seconds).
Key(row) == <<row.leader_node_id, row.follower_node_id, row.seconds>>

\* A plausible slip: a plain insert into a table without the primary key.
InsertAlways(table, row) == table (+) SetToBag({row})

\* A plausible slip: insert or replace, which overwrites the row of the key.
InsertOrReplace(table, row) ==
    LET kept == {old \in BagToSet(table) : Key(old) # Key(row)}
    IN  [old \in kept |-> CopiesIn(old, table)] (+) SetToBag({row})

\* insert or ignore into collisions values (?, ?, ?, ?)
InsertOrIgnore(table, row) ==
    IF \E old \in BagToSet(table) : Key(old) = Key(row)
    THEN table
    ELSE table (+) SetToBag({row})

-----------------------------------------------------------------------------
(* The instants of a run                                                   *)

\* Sample times count ticks; float.is_integer() holds of whole seconds.
TicksPerSecond == 2

is_integer(t) == t % TicksPerSecond = 0

\* SQL comparison with a parameter that may be NULL (None): never true then.
SqlGe(x, bound) == bound # None /\ x >= bound

SqlLe(x, bound) == bound # None /\ x <= bound

\* select min(seconds) / max(seconds) from results where run_id = ?
MinSeconds(table, run_id) ==
    LET S == {row.seconds : row \in {r \in table : r.run_id = run_id}}
    IN  IF S = {} THEN None ELSE Min(S)

MaxSeconds(table, run_id) ==
    LET S == {row.seconds : row \in {r \in table : r.run_id = run_id}}
    IN  IF S = {} THEN None ELSE Max(S)

\* A plausible slip: the upper bound of the query is exclusive.
SqlInstantsExclusive(table, lo, hi) ==
    Ascending({row.seconds : row \in {r \in table :
                   SqlGe(r.seconds, lo) /\ SqlLe(r.seconds, hi) /\ r.seconds # hi}})

\* sql_instants: select distinct seconds from results
\*               where seconds >= ? and seconds <= ? order by seconds asc
SqlInstants(table, lo, hi) ==
    Ascending({row.seconds : row \in {r \in table :
                   SqlGe(r.seconds, lo) /\ SqlLe(r.seconds, hi)}})

\* The list "instants" main() pairs up: the query is given args.start_time
\* and args.end_time, not the start_time and end_time main() derived.
InstantsOf(table, a) ==
    LET all == SqlInstants(table, a.start_time, a.end_time)
    IN  IF a.all_snapshots THEN all ELSE SelectSeq(all, is_integer)

-----------------------------------------------------------------------------
(* Inputs of the detector: telemetry tables, earlier output, command lines *)

\* Whole seconds sampled after second 0.
NumSeconds == 2

\* Detection runs over one database.
MaxRuns == 2

VehicleIds == {1, 2}

RunIds == {1, 2}

\* A row of results, with the columns the detector and the importer read.
ResultRow(node_id, run_id, seconds, controller, posx, posy, speed, travelled) ==
    [node_id |-> node_id, run_id |-> run_id, seconds |-> seconds,
     controller |-> controller, mobility_posx |-> posx,
     mobility_posy |-> posy, appl_speed |-> speed,
     appl_distanceTravelled |-> travelled]

\* A vehicle's recorded motion: where it is at second 0 and how far it moves
\* per second; the recorded speed is the length of that step along the axes,
\* and 0 at second 0, where the vehicle sets off.
Starts == {G(0, 0), G(1, 0), G(1, 1), G(1, 2)}

Steps == {G(0, 0), G(1, 0), G(2, 0)}

Tracks == [start : Starts, step : Steps]

Abs(n) == IF n < 0 THEN -n ELSE n

TrackPos(tr, sec) == Point(tr.start[1] + sec * tr.step[1], tr.start[2] + sec * tr.step[2])

TrackSpeed(tr) == Abs(tr.step[1]) + Abs(tr.step[2])

TrackRow(id, run_id, tr, sec) ==
    ResultRow(id, run_id, sec * TicksPerSecond,
              IF sec = 0 THEN "ACC" ELSE "CACC",
              TrackPos(tr, sec)[1], TrackPos(tr, sec)[2],
              IF sec = 0 THEN 0 ELSE TrackSpeed(tr),
              sec * TrackSpeed(tr))

TrackRows(id, run_id, tr) == {TrackRow(id, run_id, tr, sec) : sec \in 0..NumSeconds}

\* Ways a recorded table departs from two complete tracks of run 1.
Variants == {"plain", "partial", "nulls", "subsecond", "otherrun", "gap"}

Table(t1, t2, variant) ==
    LET base == TrackRows(1, 1, t1) \cup TrackRows(2, 1, t2)
        nul(row, col) == [row EXCEPT ![col] = None]
    IN  CASE variant = "plain" -> base
          \* vehicle 2 is sampled neither at second 0 nor at the last second,
          \* vehicle 1 has no speed at the last second
          [] variant = "partial" ->
                (base \ {TrackRow(2, 1, t2, 0), TrackRow(2, 1, t2, NumSeconds),
                         TrackRow(1, 1, t1, NumSeconds)})
                \cup {nul(TrackRow(1, 1, t1, NumSeconds), "appl_speed")}
          \* vehicle 1 has no y position at second 0 and no speed at the last
          \* second, vehicle 2 has no x position at second 0
          [] variant = "nulls" ->
                (base \ {TrackRow(1, 1, t1, 0), TrackRow(1, 1, t1, NumSeconds),
                         TrackRow(2, 1, t2, 0)})
                \cup {nul(TrackRow(1, 1, t1, 0), "mobility_posy"),
                      nul(TrackRow(1, 1, t1, NumSeconds), "appl_speed"),
                      nul(TrackRow(2, 1, t2, 0), "mobility_posx")}
          \* both vehicles are also sampled one tick after second 0
          [] variant = "subsecond" ->
                base \cup {ResultRow(1, 1, 1, "ACC", t1.start[1], t1.start[2], TrackSpeed(t1), 0),
                           ResultRow(2, 1, 1, "ACC", t2.start[1], t2.start[2], TrackSpeed(t2), 0)}
          \* run 2 recorded the same vehicles with the tracks exchanged
          [] variant = "otherrun" ->
                base \cup TrackRows(1, 2, t2) \cup TrackRows(2, 2, t1)
          \* run 1 has no sample at second 1, run 2 has one
          [] variant = "gap" ->
                (base \ {TrackRow(1, 1, t1, 1), TrackRow(2, 1, t2, 1)})
                \cup {TrackRow(1, 2, t2, 1)}

\* Two vehicles are never recorded at one position at one instant.
Apart(t1, t2) == \A sec \in 0..NumSeconds : TrackPos(t1, sec) # TrackPos(t2, sec)

\* Vehicle 1 sets off at the start of lane e1_0, vehicle 2 anywhere else.
TrackPairs == {p \in Tracks \X Tracks : p[1].start = G(0, 0) /\ Apart(p[1], p[2])}

\* Vehicle 1 sets off right behind vehicle 2 on one lane, at the same speed.
VariantPairs ==
    {p \in TrackPairs :
        /\ p[1].start = G(0, 0)
        /\ p[2].start = G(1, 0)
        /\ p[1].step = p[2].step
        /\ p[1].step # G(0, 0)}

\* A recording at the edge of the network.  Vehicle 1 closes in on vehicle 2
\* from before the start of lane e1_0: at second 1 it is at the float
\* (-0.1, 0), at the tolerance itself from the start of the lane; at the last
\* second it is a sixteenth beyond the end of the lane and vehicle 2, within
\* its danger radius, three sixteenths beyond.
EdgeTable ==
    LET last == NumSeconds * TicksPerSecond
    IN  {ResultRow(1, 1, 0, "ACC", -18, 0, 0, 0),
         ResultRow(2, 1, 0, "ACC", 0, 0, 0, 0),
         ResultRow(1, 1, TicksPerSecond, "CACC", -8, 0, 3 * Grid, 2 * Grid),
         ResultRow(2, 1, TicksPerSecond, "CACC", Grid, 0, Grid, Grid),
         ResultRow(1, 1, last, "CACC", 4 * Grid, 0, 3 * Grid, 6 * Grid),
         ResultRow(2, 1, last, "CACC", 6 * Grid, 0, Grid, 6 * Grid)}

\* Every pair of tracks recorded in full, every variant of the pairs of
\* VariantPairs, and the recording at the edge of the network.
Tables == {Table(tt[1], tt[2], "plain") : tt \in TrackPairs}
          \cup {Table(tt[1], tt[2], v) : tt \in VariantPairs, v \in Variants}
          \cup {EdgeTable}

-----------------------------------------------------------------------------
(* vec2sql.py: the importer that fills the results table                   *)

\* The columns of VEC_COLS the model's rows carry.
VEC_COLS == {"mobility_posx", "mobility_posy", "appl_speed", "appl_distanceTravelled"}

\* One vector line of a .vec file: the node of its vector, its time, the
\* column its vector names, and its value.
Sample(node_id, vectime, colname, vecvalue) ==
    [node_id |-> node_id, vectime |-> vectime, colname |-> colname, vecvalue |-> vecvalue]

\* All the columns of one vehicle at one time.
FullSample(node_id, vectime, pos, speed, travelled) ==
    << Sample(node_id, vectime, "mobility_posx", pos[1]),
       Sample(node_id, vectime, "mobility_posy", pos[2]),
       Sample(node_id, vectime, "appl_speed", speed),
       Sample(node_id, vectime, "appl_distanceTravelled", travelled) >>

\* Files imported into one database.
MaxImports == 1

\* The .vec files imported.  The first is of run 1 and well formed: both
\* vehicles one tick before the last second, a new position and speed of
\* vehicle 1 at the last second, and a vector of a column results does not
\* have.  The second is of run 2 and breaks off in a malformed line after a
\* position of vehicle 1 one tick after second 0.
VecFiles ==
    LET last == NumSeconds * TicksPerSecond
    IN  { [runid |-> 1, controller |-> "CACC", wellformed |-> TRUE,
           samples |-> FullSample(1, last - 1, G(2, 0), Grid, 3 * Grid)
                       \o FullSample(2, last - 1, G(2, 1), Grid, 3 * Grid)
                       \o << Sample(1, last, "mobility_posx", 3 * Grid),
                             Sample(1, last, "appl_speed", 2 * Grid),
                             Sample(2, 1, "appl_unknown", 0) >>],
          [runid |-> 2, controller |-> "ACC", wellformed |-> FALSE,
           samples |-> << Sample(1, 1, "mobility_posx", Grid) >>] }

\* No import is under way.
NoFile == [runid |-> 0, controller |-> "", wellformed |-> TRUE, samples |-> <<>>]

\* Lines 105-117: create the row with default values ignoring duplicates,
\* then update the column of the vector, unless results has no such column.
ApplySample(table, runid, controller, smp) ==
    LET isRow(row) == /\ row.node_id = smp.node_id
                      /\ row.run_id = runid
                      /\ row.seconds = smp.vectime
        created == IF \E row \in table : isRow(row)
                   THEN table
                   ELSE table \cup {ResultRow(smp.node_id, runid, smp.vectime, controller,
                                              None, None, None, None)}
    IN  IF smp.colname \notin VEC_COLS
        THEN created
        ELSE {IF isRow(row) THEN [row EXCEPT ![smp.colname] = smp.vecvalue] ELSE row :
                 row \in created}

RECURSIVE ApplySamples(_, _, _, _)
ApplySamples(table, runid, controller, samples) ==
    IF samples = <<>> THEN table
    ELSE ApplySamples(ApplySample(table, runid, controller, Head(samples)),
                      runid, controller, Tail(samples))

\* Lines 58-128: the lines of the file in order; then the rows without
\* appl_distanceTravelled are deleted, unless a line raised; then the commit.
handle_one_table(table, f) ==
    LET filled == ApplySamples(table, f.runid, f.controller, f.samples)
    IN  IF f.wellformed
        THEN {row \in filled : row.appl_distanceTravelled # None}
        ELSE filled

\* What the collisions table holds before the first run: nothing, or a record
\* an earlier detection over another network left for the same triple.
PriorStores == {EmptyBag,
                SetToBag({CollisionRow(2, 1, TicksPerSecond, "e0_0")})}

StartTimes == {None, 0, 1}

EndTimes == {None, NumSeconds * TicksPerSecond, NumSeconds * TicksPerSecond - 1}

TTCs == {1}

\* --all_snapshots is given with the widest window only.
Args == {a \in [run_id : RunIds, start_time : StartTimes, end_time : EndTimes,
                ttc : TTCs, all_snapshots : BOOLEAN] :
            a.all_snapshots =>
                (a.start_time = 0 /\ a.end_time = NumSeconds * TicksPerSecond)}

NoArgs == [run_id |-> 0, start_time |-> None, end_time |-> None,
           ttc |-> 0, all_snapshots |-> FALSE]

NoPositions == [up |-> Point(0, 0), uc |-> Point(0, 0),
                vp |-> Point(0, 0), vc |-> Point(0, 0)]

NoFollowing == [called |-> FALSE, uv |-> FALSE, vu |-> FALSE]

NoTransform == [xf |-> CoordTransformer(Point(0, 0), Point(0, 0), 0), p |-> Point(0, 0)]

NoRoundTrip == [called |-> FALSE, there |-> Point(0, 0), back |-> Point(0, 0),
                there_back |-> Point(0, 0), back_there |-> Point(0, 0)]

-----------------------------------------------------------------------------
(* main() of sql2collisions.py                                             *)

Ended == {"done", "error", "crashed", "locked"}

Init ==
    /\ results \in Tables
    /\ collisions \in PriorStores
    /\ tableExists = (collisions # EmptyBag)
    /\ args = NoArgs
    /\ pc = "idle"
    /\ instants = <<>>
    /\ k = 0
    /\ start_data = <<>>
    /\ snapshot = <<>>
    /\ pending = <<>>
    /\ vehicle_id = 0
    /\ vehicle_lane_id = ""
    /\ nearby = <<>>
    /\ found = {}
    /\ emitted = {}
    /\ processed = <<>>
    /\ looked = <<>>
    /\ built = <<>>
    /\ seen = <<>>
    /\ runs = 0
    /\ prevArgs = NoArgs
    /\ prevStore = EmptyBag
    /\ read = {}
    /\ prevRead = {}
    /\ changed = FALSE
    /\ prevChanged = FALSE
    /\ imports = 0
    /\ importing = NoFile
    /\ exclusive = FALSE
    /\ fin = NoPositions
    /\ fout = NoFollowing
    /\ tin = NoTransform
    /\ tout = NoRoundTrip

\* The import's lock refuses a write of the detector.
WriteLocked == importing # NoFile

\* The import's lock refuses a read of the detector.
ReadLocked == importing # NoFile /\ exclusive

\* Lines 204-242: parse the command line, read the network, connect, and
\* create the collisions table if it is missing: the first access to the
\* database.  While an import holds the exclusive lock, or holds the write
\* lock and the table is missing, it raises OperationalError (database is
\* locked) once the busy timeout has passed.
Begin(a) ==
    LET locked == ReadLocked \/ (WriteLocked /\ ~tableExists)
    IN  /\ args' = a
        /\ pc' = IF locked THEN "locked"
                 ELSE IF a.start_time = None THEN "start_time"
                 ELSE IF a.end_time = None THEN "end_time"
                 ELSE "instants"
        /\ tableExists' = (tableExists \/ ~locked)
        /\ instants' = <<>>
        /\ k' = 1
        /\ start_data' = <<>>
        /\ snapshot' = <<>>
        /\ pending' = <<>>
        /\ vehicle_id' = 0
        /\ vehicle_lane_id' = ""
        /\ nearby' = <<>>
        /\ found' = {}
        /\ emitted' = {}
        /\ processed' = <<>>
        /\ looked' = <<>>
        /\ built' = <<>>
        /\ seen' = <<>>
        /\ runs' = runs + 1
        /\ prevArgs' = args
        /\ prevStore' = collisions
        /\ prevRead' = read
        /\ changed' = FALSE
        /\ prevChanged' = changed
        /\ UNCHANGED <<results, collisions, read, fin, fout, tin, tout, imports,
                       importing, exclusive>>

\* The first detection run over the database.
Start ==
    /\ pc = "idle"
    /\ \E a \in Args : Begin(a)

\* The same command line is run again over the same database.
Rerun ==
    /\ pc \in Ended
    /\ runs < MaxRuns
    /\ Begin(args)

\* Lines 245-247: no --start_time was given, select min(seconds) of the run.
\* The value is kept in start_time, which nothing reads.
SelectMinSeconds ==
    /\ pc = "start_time"
    /\ pc' = IF ReadLocked THEN "locked"
             ELSE IF args.end_time = None THEN "end_time"
             ELSE "instants"
    /\ UNCHANGED <<results, collisions, args, instants, k, snapshot, pending,
                   vehicle_id, vehicle_lane_id, nearby, found, emitted, processed,
                   looked, built, runs, prevArgs, prevStore, fin, fout, tin, tout,
                   read, prevRead, tableExists, start_data, seen, changed,
                   prevChanged, imports, importing, exclusive>>

\* Lines 249-251: no --end_time was given, select max(seconds) of the run.
\* The value is kept in end_time, which nothing reads.
SelectMaxSeconds ==
    /\ pc = "end_time"
    /\ pc' = IF ReadLocked THEN "locked" ELSE "instants"
    /\ UNCHANGED <<results, collisions, args, instants, k, snapshot, pending,
                   vehicle_id, vehicle_lane_id, nearby, found, emitted, processed,
                   looked, built, runs, prevArgs, prevStore, fin, fout, tin, tout,
                   read, prevRead, tableExists, start_data, seen, changed,
                   prevChanged, imports, importing, exclusive>>

\* Lines 253-263: list the instants.  The f-string of line 263 formats
\* args.start_time and args.end_time with :.2f whether or not debugging is
\* on, which raises TypeError when either was not given.
SelectInstants ==
    /\ pc = "instants"
    /\ IF ReadLocked
       THEN /\ pc' = "locked"
            /\ UNCHANGED <<instants, read>>
       ELSE /\ instants' = InstantsOf(results, args)
            /\ read' = results
            /\ pc' = IF args.start_time = None \/ args.end_time = None
                     THEN "crashed"
                     ELSE "pair"
    /\ UNCHANGED <<results, collisions, args, k, snapshot, pending,
                   vehicle_id, vehicle_lane_id, nearby, found, emitted, processed,
                   looked, built, runs, prevArgs, prevStore, fin, fout, tin, tout,
                   prevRead, tableExists, start_data, seen, changed,
                   prevChanged, imports, importing, exclusive>>

\* vec2sql.py, in a process of its own, starts importing one more .vec file:
\* its first write (line 107) opens a transaction and takes the write lock
\* of the database; what it writes is seen by no reader before the commit.
handle_one_write ==
    /\ imports < MaxImports
    /\ importing = NoFile
    /\ \E f \in VecFiles : importing' = f
    /\ imports' = imports + 1
    /\ UNCHANGED <<results, collisions, args, pc, instants, k, snapshot, pending,
                   vehicle_id, vehicle_lane_id, nearby, found, emitted, processed,
                   looked, built, runs, prevArgs, prevStore, fin, fout, tin, tout,
                   read, prevRead, tableExists, start_data, seen, changed,
                   prevChanged, exclusive>>

\* Lines 107-124, later writes of the same transaction: the changed pages no
\* longer fit the page cache and are written to the database file, for which
\* the import takes the exclusive lock and keeps it until the commit.
handle_one_spill ==
    /\ importing # NoFile
    /\ ~exclusive
    /\ exclusive' = TRUE
    /\ UNCHANGED <<results, collisions, args, pc, instants, k, snapshot, pending,
                   vehicle_id, vehicle_lane_id, nearby, found, emitted, processed,
                   looked, built, runs, prevArgs, prevStore, fin, fout, tin, tout,
                   read, prevRead, tableExists, start_data, seen, changed,
                   prevChanged, imports, importing>>

\* Line 128: the import commits; the table changes for every reader at once
\* and the locks are released.
handle_one_commit ==
    /\ importing # NoFile
    /\ results' = handle_one_table(results, importing)
    /\ importing' = NoFile
    /\ exclusive' = FALSE
    /\ changed' = TRUE
    /\ UNCHANGED <<collisions, args, pc, instants, k, snapshot, pending,
                   vehicle_id, vehicle_lane_id, nearby, found, emitted, processed,
                   looked, built, runs, prevArgs, prevStore, fin, fout, tin, tout,
                   read, prevRead, tableExists, start_data, seen, prevChanged, imports>>

\* Lines 264 and 164-167: the next pair of zip(instants, instants[1:]); the
\* first SELECT of Snapshot.__init__ reads the rows of the start instant.
SelectStart ==
    /\ pc = "pair"
    /\ k < Len(instants)
    /\ IF ReadLocked
       THEN /\ pc' = "locked"
            /\ UNCHANGED <<start_data, seen>>
       ELSE /\ start_data' = StartData(SnapshotRows(results, args.run_id, instants[k]))
            /\ seen' = Append(seen, <<results, results>>)
            /\ pc' = "pair_end"
    /\ UNCHANGED <<results, collisions, args, instants, k, snapshot, pending,
                   vehicle_id, vehicle_lane_id, nearby, found, emitted, processed,
                   looked, built, runs, prevArgs, prevStore, fin, fout, tin, tout,
                   read, prevRead, tableExists, changed, prevChanged, imports,
                   importing, exclusive>>

\* Lines 169-178 and 265-268: the second SELECT reads the rows of the end
\* instant, as the table is now, and the Snapshot is built.
BuildSnapshot ==
    /\ pc = "pair_end"
    /\ IF ReadLocked
       THEN /\ pc' = "locked"
            /\ UNCHANGED <<snapshot, seen, pending, processed, built>>
       ELSE /\ snapshot' = SnapshotOf(start_data,
                              EndData(SnapshotRows(results, args.run_id, instants[k + 1])))
            /\ seen' = [seen EXCEPT ![Len(seen)] = <<seen[Len(seen)][1], results>>]
            /\ pending' = SnapshotItems(snapshot')
            /\ processed' = Append(processed, <<instants[k], instants[k + 1]>>)
            /\ built' = Append(built, snapshot')
            /\ pc' = "vehicle"
    /\ UNCHANGED <<results, collisions, args, instants, k, vehicle_id,
                   vehicle_lane_id, nearby, found, emitted, looked, runs,
                   prevArgs, prevStore, fin, fout, tin, tout, read, prevRead,
                   tableExists, start_data, changed, prevChanged, imports,
                   importing, exclusive>>

\* Line 264: zip is exhausted, main() returns.
Finish ==
    /\ pc = "pair"
    /\ k >= Len(instants)
    /\ pc' = "done"
    /\ UNCHANGED <<built, results, collisions, args, instants, k, snapshot, pending,
                   vehicle_id, vehicle_lane_id, nearby, found, emitted,
                   processed, looked, runs, prevArgs, prevStore, fin, fout, tin,
                   tout, read, prevRead, tableExists, start_data, seen, changed,
                   prevChanged, imports, importing, exclusive>>

\* Lines 270-277: the next vehicle of snapshot.items(): its lane, its danger
\* radius, its neighbours, in the order the tree of ProximityHelper returns
\* them.  A failed lane lookup ends the run.
LookupVehicle ==
    /\ pc = "vehicle"
    /\ pending # <<>>
    /\ LET v       == Head(pending)
           vehicle == snapshot[v]
           lane    == EdgeLookupFind(vehicle.curr_pos)
           ttc_boundry == vehicle.speed * args.ttc
       IN  /\ looked' = Append(looked, <<v, vehicle.curr_pos>>)
           /\ vehicle_id' = v
           /\ IF lane = ValueError
              THEN /\ pc' = "error"
                   /\ UNCHANGED <<vehicle_lane_id, found, nearby>>
              ELSE /\ pc' = "nearby"
                   /\ vehicle_lane_id' = lane.lane_id
                   /\ found' = ProximityFind(SnapshotEnd(snapshot), vehicle.curr_pos, ttc_boundry)
                   /\ nearby' \in Orderings(found')
    /\ UNCHANGED <<built, results, collisions, args, instants, k, snapshot, pending,
                   emitted, processed, runs, prevArgs, prevStore, fin, fout, tin,
                   tout, read, prevRead, tableExists, start_data, seen, changed,
                   prevChanged, imports, importing, exclusive>>

\* Line 270: snapshot.items() is exhausted, on to the next pair.
EndPair ==
    /\ pc = "vehicle"
    /\ pending = <<>>
    /\ k' = k + 1
    /\ pc' = "pair"
    /\ UNCHANGED <<built, results, collisions, args, instants, snapshot, pending,
                   vehicle_id, vehicle_lane_id, nearby, found, emitted,
                   processed, looked, runs, prevArgs, prevStore, fin, fout, tin,
                   tout, read, prevRead, tableExists, start_data, seen, changed,
                   prevChanged, imports, importing, exclusive>>

\* Lines 279-281: the candidate is the iterated vehicle itself.
SkipSelf ==
    /\ pc = "nearby"
    /\ nearby # <<>>
    /\ Head(nearby) = vehicle_id
    /\ nearby' = Tail(nearby)
    /\ UNCHANGED <<built, results, collisions, args, pc, instants, k, snapshot, pending,
                   vehicle_id, vehicle_lane_id, found, emitted, processed,
                   looked, runs, prevArgs, prevStore, fin, fout, tin, tout, read,
                   prevRead, tableExists, start_data, seen, changed, prevChanged,
                   imports, importing, exclusive>>

\* Lines 282-301: another candidate: its lane, the lane test, the following
\* test, the insert and the commit.  A failed lane lookup ends the run; so
\* does an insert while an import holds the write lock, with OperationalError
\* (database is locked) once the busy timeout has passed.
CheckNearby ==
    /\ pc = "nearby"
    /\ nearby # <<>>
    /\ Head(nearby) # vehicle_id
    /\ LET w       == Head(nearby)
           vehicle == snapshot[vehicle_id]
           nearby_vehicle == snapshot[w]
           lane    == EdgeLookupFind(nearby_vehicle.curr_pos)
           row     == CollisionRow(w, vehicle_id, instants[k + 1], vehicle_lane_id)
       IN  /\ looked' = Append(looked, <<w, nearby_vehicle.curr_pos>>)
           /\ IF lane = ValueError
              THEN /\ pc' = "error"
                   /\ UNCHANGED <<nearby, collisions, emitted>>
              ELSE IF /\ lane.lane_id = vehicle_lane_id
                      /\ is_following(vehicle.prev_pos, vehicle.curr_pos,
                                      nearby_vehicle.prev_pos, nearby_vehicle.curr_pos)
              THEN IF WriteLocked
                   THEN /\ pc' = "locked"
                        /\ UNCHANGED <<nearby, collisions, emitted>>
                   ELSE /\ pc' = pc
                        /\ nearby' = Tail(nearby)
                        /\ collisions' = InsertOrIgnore(collisions, row)
                        /\ emitted' = emitted \cup {row}
              ELSE /\ pc' = pc
                   /\ nearby' = Tail(nearby)
                   /\ UNCHANGED <<collisions, emitted>>
    /\ UNCHANGED <<built, results, args, instants, k, snapshot, pending, vehicle_id,
                   vehicle_lane_id, found, processed, runs, prevArgs,
                   prevStore, fin, fout, tin, tout, read, prevRead, tableExists,
                   start_data, seen, changed, prevChanged, imports, importing,
                   exclusive>>

\* Line 279: the candidates are exhausted, on to the next vehicle.
EndVehicle ==
    /\ pc = "nearby"
    /\ nearby = <<>>
    /\ pending' = Tail(pending)
    /\ pc' = "vehicle"
    /\ UNCHANGED <<built, results, collisions, args, instants, k, snapshot,
                   vehicle_id, vehicle_lane_id, nearby, found, emitted,
                   processed, looked, runs, prevArgs, prevStore, fin, fout, tin,
                   tout, read, prevRead, tableExists, start_data, seen, changed,
                   prevChanged, imports, importing, exclusive>>

Next ==
    \/ Start
    \/ Rerun
    \/ SelectMinSeconds
    \/ SelectMaxSeconds
    \/ SelectInstants
    \/ handle_one_write
    \/ handle_one_spill
    \/ handle_one_commit
    \/ SelectStart
    \/ BuildSnapshot
    \/ Finish
    \/ LookupVehicle
    \/ EndPair
    \/ SkipSelf
    \/ CheckNearby
    \/ EndVehicle

Spec == Init /\ [][Next]_vars

-----------------------------------------------------------------------------
(* is_following on its own: every four positions of a small grid           *)

FollowMaxX == 4

FollowMaxY == 2

FollowGrid == {Point(x, y) : x \in 0..FollowMaxX, y \in 0..FollowMaxY}

\* Two vehicles are never recorded at one position at one instant.
InitFollowing ==
    /\ fin \in {f \in [up : FollowGrid, uc : FollowGrid, vp : FollowGrid, vc : FollowGrid] :
                    f.up # f.vp /\ f.uc # f.vc}
    /\ fout = NoFollowing
    /\ tin = NoTransform
    /\ tout = NoRoundTrip
    /\ results = {}
    /\ collisions = EmptyBag
    /\ args = NoArgs
    /\ pc = "idle"
    /\ instants = <<>>
    /\ k = 0
    /\ snapshot = <<>>
    /\ pending = <<>>
    /\ vehicle_id = 0
    /\ vehicle_lane_id = ""
    /\ nearby = <<>>
    /\ found = {}
    /\ emitted = {}
    /\ processed = <<>>
    /\ looked = <<>>
    /\ built = <<>>
    /\ runs = 0
    /\ prevArgs = NoArgs
    /\ prevStore = EmptyBag
    /\ read = {}
    /\ prevRead = {}
    /\ imports = 0
    /\ importing = NoFile
    /\ exclusive = FALSE
    /\ tableExists = FALSE
    /\ start_data = <<>>
    /\ seen = <<>>
    /\ changed = FALSE
    /\ prevChanged = FALSE

\* is_following is evaluated for u against v and for v against u.
CallIsFollowing ==
    /\ ~fout.called
    /\ fout' = [called |-> TRUE,
                uv |-> is_following(fin.up, fin.uc, fin.vp, fin.vc),
                vu |-> is_following(fin.vp, fin.vc, fin.up, fin.uc)]
    /\ UNCHANGED fin
    /\ UNCHANGED detectorVars
    /\ UNCHANGED transformVars

NextFollowing == CallIsFollowing

SpecFollowing == InitFollowing /\ [][NextFollowing]_vars

-----------------------------------------------------------------------------
(* CoordTransformer on its own: every configuration and point of a small   *)
(* integer grid                                                            *)

XformMax == 2

XformGrid == {Point(x, y) : x \in (0 - XformMax)..XformMax, y \in (0 - XformMax)..XformMax}

InitTransform ==
    /\ tin \in {[xf |-> CoordTransformer(tl, br, m), p |-> q] :
                   tl \in XformGrid, br \in XformGrid, m \in 0..XformMax, q \in XformGrid}
    /\ tout = NoRoundTrip
    /\ fin = NoPositions
    /\ fout = NoFollowing
    /\ results = {}
    /\ collisions = EmptyBag
    /\ args = NoArgs
    /\ pc = "idle"
    /\ instants = <<>>
    /\ k = 0
    /\ snapshot = <<>>
    /\ pending = <<>>
    /\ vehicle_id = 0
    /\ vehicle_lane_id = ""
    /\ nearby = <<>>
    /\ found = {}
    /\ emitted = {}
    /\ processed = <<>>
    /\ looked = <<>>
    /\ built = <<>>
    /\ runs = 0
    /\ prevArgs = NoArgs
    /\ prevStore = EmptyBag
    /\ read = {}
    /\ prevRead = {}
    /\ imports = 0
    /\ importing = NoFile
    /\ exclusive = FALSE
    /\ tableExists = FALSE
    /\ start_data = <<>>
    /\ seen = <<>>
    /\ changed = FALSE
    /\ prevChanged = FALSE

\* The point is mapped to the network plane and back, and to the simulation
\* plane and back.
CallTransform ==
    /\ ~tout.called
    /\ tout' = [called |-> TRUE,
                there |-> omnet2traci(tin.xf, tin.p),
                back  |-> traci2omnet(tin.xf, tin.p),
                there_back |-> traci2omnet(tin.xf, omnet2traci(tin.xf, tin.p)),
                back_there |-> omnet2traci(tin.xf, traci2omnet(tin.xf, tin.p))]
    /\ UNCHANGED tin
    /\ UNCHANGED detectorVars
    /\ UNCHANGED followingVars

NextTransform == CallTransform

SpecTransform == InitTransform /\ [][NextTransform]_vars

-----------------------------------------------------------------------------
(* Claims about CoordTransformer, checked under SpecTransform              *)

\* C11: for every transformer configuration and every point p, mapping p to
\* the network plane and back gives p, and mapping p to the simulation plane
\* and back gives p.
C11_MutualInverses ==
    tout.called => /\ tout.there_back = tin.p
                   /\ tout.back_there = tin.p

\* A round trip was made with a positive margin and distinct corners, and
\* neither mapping left the point where it was.
C11_Witness ==
    /\ tout.called
    /\ tin.xf.margin > 0
    /\ tin.xf.topleft[1] # tin.xf.bottomright[1]
    /\ tin.xf.topleft[2] # tin.xf.bottomright[2]
    /\ tout.there # tin.p
    /\ tout.back # tin.p
    /\ tout.there # tout.back

-----------------------------------------------------------------------------
(* Claims about is_following, checked under SpecFollowing                  *)

\* Displacements of u and v between the two instants.
MoveU == Sub(fin.uc, fin.up)

MoveV == Sub(fin.vc, fin.vp)

Moving == MoveU # Point(0, 0) /\ MoveV # Point(0, 0)

\* u and v keep to one common line.
OnCommonLine ==
    /\ Cross(MoveU, MoveV) = 0
    /\ Cross(MoveU, Sub(fin.vp, fin.up)) = 0

OppositeAlongLine == Moving /\ OnCommonLine /\ Dot(MoveU, MoveV) < 0

SameWayAlongLine == Moving /\ OnCommonLine /\ Dot(MoveU, MoveV) > 0

Perpendicular == Moving /\ Dot(MoveU, MoveV) = 0

\* u is ahead of v along the direction of travel at the start / at the end.
AheadAtStart == Dot(Sub(fin.up, fin.vp), MoveU) > 0

AheadAtEnd == Dot(Sub(fin.uc, fin.vc), MoveU) > 0

BehindAtStart == Dot(Sub(fin.vp, fin.up), MoveU) > 0

BehindAtEnd == Dot(Sub(fin.vc, fin.uc), MoveU) > 0

\* C8: the following predicate is asymmetric: is_following(u, v) and
\* is_following(v, u) are never both true.
C8_Asymmetric == fout.called => ~(fout.uv /\ fout.vu)

\* C9: for vehicles travelling in opposite directions along a line, or with
\* perpendicular displacements, is_following is false in both directions.
C9_NoRoleWhenOpposingOrCrossing ==
    (fout.called /\ (OppositeAlongLine \/ Perpendicular)) => (~fout.uv /\ ~fout.vu)

\* C10: for vehicles moving the same way along a common line, is_following(u, v)
\* is false whenever u is ahead of v at both instants, and when u is behind v at
\* both instants it is true exactly when the end gap is not larger than the
\* start gap.
C10_TrueOnlyWhenBehind ==
    (fout.called /\ SameWayAlongLine) =>
        /\ (AheadAtStart /\ AheadAtEnd) => ~fout.uv
        /\ (BehindAtStart /\ BehindAtEnd) =>
              (fout.uv <=> Distance2(fin.uc, fin.vc) <= Distance2(fin.up, fin.vp))

-----------------------------------------------------------------------------
(* Claims about the detector, checked under Spec                           *)

\* The Snapshot of the j-th pair the current run processed.
PairSnapshot(j) == built[j]

\* The j-th processed pair calls for a record with follower v and leader w:
\* v and w are distinct vehicles of the pair's Snapshot, w is in the proximity
\* query around v, v follows w, and both resolve to one lane.
Calls(j, v, w) ==
    LET snap == PairSnapshot(j)
    IN  /\ v # w
        /\ {v, w} \subseteq DOMAIN snap
        /\ w \in ProximityFind(SnapshotEnd(snap), snap[v].curr_pos,
                               snap[v].speed * args.ttc)
        /\ Distance2(snap[v].prev_pos, snap[w].curr_pos)
              > Distance2(snap[v].prev_pos, snap[w].prev_pos)
        /\ Distance2(snap[v].curr_pos, snap[w].curr_pos)
              <= Distance2(snap[v].prev_pos, snap[w].prev_pos)
        /\ EdgeLookupFind(snap[v].curr_pos) # ValueError
        /\ EdgeLookupFind(snap[w].curr_pos) # ValueError
        /\ EdgeLookupFind(snap[v].curr_pos).lane_id = EdgeLookupFind(snap[w].curr_pos).lane_id

\* C1: a record (leader w, follower v, end instant, lane) is inserted exactly
\* when v and w are distinct vehicles of the pair's Snapshot, w is returned by
\* the proximity query around v, both resolve to the same lane and v follows
\* w; no record has leader = follower or names a vehicle outside the Snapshot.
C1_RecordsExactlyDetected ==
    /\ \A rec \in emitted :
          /\ rec.leader_node_id # rec.follower_node_id
          /\ \E j \in 1..Len(processed) :
                /\ rec.seconds = processed[j][2]
                /\ Calls(j, rec.follower_node_id, rec.leader_node_id)
                /\ rec.lane_id =
                      EdgeLookupFind(PairSnapshot(j)[rec.follower_node_id].curr_pos).lane_id
    /\ \A j \in 1..Len(processed) :
          \A v \in DOMAIN PairSnapshot(j) : \A w \in DOMAIN PairSnapshot(j) :
              (/\ j < Len(processed) \/ v \notin Range(pending)
               /\ Calls(j, v, w))
                 => \E rec \in emitted :
                       /\ rec.leader_node_id = w
                       /\ rec.follower_node_id = v
                       /\ rec.seconds = processed[j][2]

C1_Witness ==
    /\ pc = "done"
    /\ Len(processed) >= 2
    /\ \E rec \in emitted : rec.seconds = processed[1][2]
    /\ \E rec \in emitted : rec.seconds = processed[2][2]

\* The state part of C2: one row per (leader, follower, timestamp), and a run
\* over the input of the run before it leaves the table as that run left it;
\* the input is identical when the command line is the same and no import was
\* committed since the run before it began.
C2_Unique ==
    /\ \A r1 \in BagToSet(collisions) :
          /\ CopiesIn(r1, collisions) = 1
          /\ \A r2 \in BagToSet(collisions) : Key(r1) = Key(r2) => r1 = r2
    /\ (runs >= 2 /\ args = prevArgs /\ read = prevRead /\ ~changed /\ ~prevChanged)
          => collisions = prevStore

\* The step part of C2: an insert of a triple the table holds changes nothing.
C2_ReinsertIsNoOp ==
    \A rec \in emitted' \ emitted :
        (\E old \in BagToSet(collisions) : Key(old) = Key(rec)) => collisions' = collisions

\* C2: the collisions table never holds two records with the same (leader,
\* follower, timestamp); re-inserting a triple it holds leaves it unchanged;
\* after a second run over identical input it equals the table after the first.
C2_IdempotentStore == [](C2_Unique) /\ [][C2_ReinsertIsNoOp]_vars

C2_Witness ==
    /\ runs = 2
    /\ pc = "done"
    /\ read = prevRead
    /\ ~changed /\ ~prevChanged
    /\ collisions = prevStore
    /\ \E rec \in emitted : rec \notin BagToSet(collisions)
    /\ \E rec \in emitted : rec \in BagToSet(collisions)

\* A row of the run at instant t with position and speed.
CompleteRows(table, id, t) ==
    {row \in table :
        /\ row.node_id = id
        /\ row.run_id = args.run_id
        /\ row.seconds = t
        /\ row.mobility_posx # None
        /\ row.mobility_posy # None
        /\ row.appl_speed # None}

\* The table as the first and as the second SELECT of the j-th Snapshot of
\* the run found it.
StartTable(j) == seen[j][1]

EndTable(j) == seen[j][2]

\* Since the j-th Snapshot was built the run went on without an error: it is
\* still on its way to the next Snapshot, or has built it, or has returned,
\* or was refused the read of the next pair.
WentOn(j) ==
    \/ j < Len(processed)
    \/ pc \in {"vehicle", "pair", "pair_end", "done"}
    \/ pc = "locked" /\ k = j + 1

\* C3: the Snapshot of a pair holds exactly the vehicles with a complete row
\* at the pair's start and a complete row at its end, each as its SELECT
\* finds it; prev_pos is the start position, curr_pos the end position,
\* speed and controller are the end row's; when no vehicle qualifies it is
\* empty and the run goes on without an error.
C3_SnapshotIsIntersection ==
    \A j \in 1..Len(processed) :
        LET start == processed[j][1]
            end   == processed[j][2]
            snap  == built[j]
        IN  /\ DOMAIN snap =
                  {id \in {row.node_id : row \in StartTable(j) \cup EndTable(j)} :
                      /\ CompleteRows(StartTable(j), id, start) # {}
                      /\ CompleteRows(EndTable(j), id, end) # {}}
            /\ \A id \in DOMAIN snap :
                  \E rs \in CompleteRows(StartTable(j), id, start) :
                  \E re \in CompleteRows(EndTable(j), id, end) :
                      /\ snap[id].prev_pos = Point(rs.mobility_posx, rs.mobility_posy)
                      /\ snap[id].curr_pos = Point(re.mobility_posx, re.mobility_posy)
                      /\ snap[id].speed = re.appl_speed
                      /\ snap[id].controller = re.controller
            /\ DOMAIN snap = {} => WentOn(j)
            /\ j = Len(processed) => snapshot = snap

\* A completed run of two pairs.  The first Snapshot holds vehicle 1 alone,
\* vehicle 2 having a complete row at the end only, and the speed and the
\* controller of vehicle 1 differ between its start row and its end row.  The
\* second Snapshot is empty: vehicle 2 has a row at the start only, vehicle 1
\* a complete row at the start and a row without speed at the end.
C3_Witness ==
    /\ pc = "done"
    /\ Len(processed) = 2
    /\ DOMAIN built[1] = {1}
    /\ CompleteRows(EndTable(1), 2, processed[1][2]) # {}
    /\ CompleteRows(StartTable(1), 2, processed[1][1]) = {}
    /\ \E row \in StartTable(1) :
          /\ row.node_id = 1 /\ row.run_id = args.run_id
          /\ row.seconds = processed[1][1]
          /\ row.appl_speed # built[1][1].speed
          /\ row.controller # built[1][1].controller
    /\ DOMAIN built[2] = {}
    /\ CompleteRows(StartTable(2), 1, processed[2][1]) # {}
    /\ CompleteRows(StartTable(2), 2, processed[2][1]) # {}
    /\ CompleteRows(EndTable(2), 2, processed[2][2]) = {}
    /\ \E row \in EndTable(2) :
          /\ row.node_id = 1 /\ row.run_id = args.run_id
          /\ row.seconds = processed[2][2]
          /\ row.appl_speed = None

\* The position the i-th lane lookup of the current run was applied to.
LookedPos(i) == looked[i][2]

\* The squared distances from a simulation-plane position to every lane.
LaneDistances(pos) ==
    [i \in 1..Len(Network) |-> LineDistance2(Network[i].points, omnet2traci(xformer, pos))]

\* Farther than the tolerance from every lane.
\* Farther than 0.1 = 8/80 of a length unit from every lane: the squared
\* distance, a fraction in squared eightieths, exceeds 8 * 8.
TooFar(pos) ==
    LET d == LaneDistances(pos)
    IN  \A i \in 1..Len(Network) : d[i][1] > 8 * 8 * d[i][2]

\* At the tolerance itself from the nearest lane.
AtTolerance(pos) ==
    LET d == LaneDistances(pos)
    IN  /\ \E i \in 1..Len(Network) : d[i][1] = 8 * 8 * d[i][2]
        /\ \A i \in 1..Len(Network) : d[i][1] >= 8 * 8 * d[i][2]

\* On no lane, and within the tolerance of the nearest.
OffLaneWithinTolerance(pos) ==
    LET d == LaneDistances(pos)
    IN  /\ ~TooFar(pos)
        /\ \A i \in 1..Len(Network) : d[i][1] > 0

\* C4: the run aborts as soon as the lane lookup meets a vehicle (iterated or
\* candidate) farther than the tolerance from its nearest lane, and nothing is
\* looked up after that; a position within the tolerance resolves to the
\* nearest lane without error; a run that completes had every
\* vehicle of every processed Snapshot within tolerance.
C4_LookupFailureIsFatal ==
    /\ \A i \in 1..Len(looked) :
          TooFar(LookedPos(i)) <=> (i = Len(looked) /\ pc = "error")
    /\ pc = "error" => looked # <<>>
    /\ pc = "nearby" =>
          LET d == LaneDistances(snapshot[vehicle_id].curr_pos)
          IN  \E i \in 1..Len(Network) :
                  /\ Network[i].lane_id = vehicle_lane_id
                  /\ \A j \in 1..Len(Network) : ~FracLess(d[j], d[i])
    /\ pc = "done" =>
          \A j \in 1..Len(processed) : \A id \in DOMAIN PairSnapshot(j) :
              ~TooFar(PairSnapshot(j)[id].curr_pos)

\* The run aborted on the lookup of a candidate, after lookups that
\* resolved a position off every lane within the tolerance and a position at
\* the tolerance itself, and after a record was emitted.
C4_Witness ==
    /\ pc = "error"
    /\ Len(looked) >= 3
    /\ looked[Len(looked)][1] # vehicle_id
    /\ emitted # {}
    /\ \E i \in 1..(Len(looked) - 1) : OffLaneWithinTolerance(LookedPos(i))
    /\ \E i \in 1..(Len(looked) - 1) : AtTolerance(LookedPos(i))

\* The adjacent pairs of a sequence.
AdjacentPairs(seq) ==
    IF Len(seq) < 2 THEN <<>> ELSE [i \in 1..(Len(seq) - 1) |-> <<seq[i], seq[i + 1]>>]

\* The sampled instants between the first and the last sample of the run.
ObservedRange ==
    LET lo == MinSeconds(read, args.run_id)
        hi == MaxSeconds(read, args.run_id)
    IN  Ascending({t \in {row.seconds : row \in read} :
                      /\ lo # None /\ lo <= t /\ t <= hi
                      /\ (args.all_snapshots \/ t % TicksPerSecond = 0)})

\* C5: with no start time and no end time configured, the pairs processed are
\* the consecutive pairs of the full observed range of the run.
C5_DefaultsCoverObservedRange ==
    (pc \in {"done", "crashed"} /\ args.start_time = None /\ args.end_time = None)
        => processed = AdjacentPairs(ObservedRange)

\* The distinct sampled instants of the closed interval [start_time, end_time],
\* whole seconds only unless all_snapshots is on, in ascending order.
WindowInstants ==
    Ascending({t \in {row.seconds : row \in read} :
                  /\ args.start_time # None /\ args.end_time # None
                  /\ args.start_time <= t /\ t <= args.end_time
                  /\ (args.all_snapshots \/ t % TicksPerSecond = 0)})

\* C6: the pairs processed are the adjacent elements of the ascending sequence
\* of distinct sampled instants in [start_time, end_time], in ascending order,
\* and the loop stops after the last pair; by default only whole seconds are
\* paired and stamped on records, sub-second instants in between are skipped.
C6_AdjacentPairsInOrder ==
    /\ \A i \in 1..Len(processed) :
          /\ i < Len(WindowInstants)
          /\ processed[i] = <<WindowInstants[i], WindowInstants[i + 1]>>
          /\ processed[i][1] < processed[i][2]
    /\ pc = "done" => processed = AdjacentPairs(WindowInstants)
    /\ ~args.all_snapshots =>
          /\ \A i \in 1..Len(processed) :
                processed[i][1] % TicksPerSecond = 0 /\ processed[i][2] % TicksPerSecond = 0
          /\ \A rec \in emitted : rec.seconds % TicksPerSecond = 0

C6_Witness ==
    /\ pc = "done"
    /\ ~args.all_snapshots
    /\ Len(processed) >= 2
    /\ \E row \in read :
          /\ row.seconds % TicksPerSecond # 0
          /\ processed[1][1] < row.seconds
          /\ row.seconds < processed[1][2]

\* C7: the proximity query around the iterated vehicle, for a positive radius
\* speed * ttc, returns exactly the Snapshot vehicles at Euclidean distance
\* <= speed * ttc from its current position, and every emitted record has its
\* leader within that distance of its follower.
C7_QueryIsEuclideanDisc ==
    /\ (pc = "nearby" /\ snapshot[vehicle_id].speed * args.ttc > 0) =>
          found = {w \in DOMAIN snapshot :
                      Distance2(snapshot[w].curr_pos, snapshot[vehicle_id].curr_pos)
                         <= (snapshot[vehicle_id].speed * args.ttc)
                              * (snapshot[vehicle_id].speed * args.ttc)}
    /\ \A rec \in emitted : \A j \in 1..Len(processed) :
          rec.seconds = processed[j][2] =>
              LET snap == PairSnapshot(j)
                  v == snap[rec.follower_node_id]
                  w == snap[rec.leader_node_id]
              IN  Distance2(v.curr_pos, w.curr_pos)
                     <= (v.speed * args.ttc) * (v.speed * args.ttc)

\* C12: with a start time s and an end time e given, the start is inclusive
\* and the end exclusive: every instant of a processed pair lies in [s, e),
\* so no instant equal to e is used in a pair, and no collision record has
\* timestamp e.
C12_EndExclusive ==
    (args.start_time # None /\ args.end_time # None) =>
        /\ \A j \in 1..Len(processed) :
              /\ args.start_time <= processed[j][1]
              /\ processed[j][1] < args.end_time
              /\ processed[j][2] < args.end_time
        /\ \A rec \in emitted : rec.seconds < args.end_time

\* The pairs the run has completed: all but the one in progress.
CompletedPairs ==
    IF k > Len(processed)
    THEN 1..Len(processed)
    ELSE 1..(Len(processed) - 1)

\* The table as it was when the current run began.
StoreAtStart == prevStore

\* The table holds, for every record a fault-free run emits for a completed
\* pair, that very record.
C13_StoreHoldsEveryRecord ==
    \A j \in CompletedPairs :
        \A v \in DOMAIN PairSnapshot(j) : \A w \in DOMAIN PairSnapshot(j) :
            Calls(j, v, w) =>
                CollisionRow(w, v, processed[j][2],
                             EdgeLookupFind(PairSnapshot(j)[v].curr_pos).lane_id)
                    \in BagToSet(collisions)

\* The table holds, for every record a fault-free run emits for a completed
\* pair, a row of its (leader, follower, timestamp): the record itself, or
\* the row of that triple the table held when the run began.
C13_StoreHoldsEveryTriple ==
    /\ \A j \in CompletedPairs :
          \A v \in DOMAIN PairSnapshot(j) : \A w \in DOMAIN PairSnapshot(j) :
              Calls(j, v, w) =>
                  LET rec == CollisionRow(w, v, processed[j][2],
                                 EdgeLookupFind(PairSnapshot(j)[v].curr_pos).lane_id)
                  IN  \E row \in BagToSet(collisions) :
                         /\ Key(row) = Key(rec)
                         /\ row = rec \/ row \in BagToSet(StoreAtStart)
    /\ \A rec \in emitted : \E row \in BagToSet(collisions) :
          /\ Key(row) = Key(rec)
          /\ row = rec \/ row \in BagToSet(StoreAtStart)

\* No step removes or alters a row of the table.
C13_NeverRemoved ==
    \A row \in BagToSet(collisions) : CopiesIn(row, collisions') >= CopiesIn(row, collisions)

\* Pairs are taken in ascending time order, one Snapshot at a time.
C13_PairsAscend ==
    \A i \in 1..Len(processed) : \A j \in 1..Len(processed) :
        i < j => processed[i][2] <= processed[j][1]

\* C13 as stated: pairs are completed one at a time in ascending time order;
\* when the Snapshot of a pair is built or the run aborts in it, the table
\* holds every record a fault-free run emits for the pairs before it, and no
\* later step removes or alters a committed record.
C13_CommittedBeforeNextPair ==
    [](C13_PairsAscend /\ C13_StoreHoldsEveryRecord) /\ [][C13_NeverRemoved]_vars

\* C13, amended: as stated, except that a record whose (leader, follower,
\* timestamp) the table held before the run is absorbed, and the table keeps
\* the older row of that triple in its place.
C13_CommittedOrAbsorbed ==
    [](C13_PairsAscend /\ C13_StoreHoldsEveryTriple) /\ [][C13_NeverRemoved]_vars

\* The run aborted on a lane lookup in its second pair, and the table holds a
\* record emitted for the first pair which it did not hold before the run.
C13_Witness ==
    /\ pc = "error"
    /\ Len(processed) = 2
    /\ \E rec \in emitted :
          /\ rec.seconds = processed[1][2]
          /\ rec \in BagToSet(collisions)
          /\ rec \notin BagToSet(StoreAtStart)

\* The telemetry of the run being processed.
OwnRows == {row \in read : row.run_id = args.run_id}

\* The adjacent pairs of the instants at which the run itself was sampled.
OwnPairs == Range(AdjacentPairs(InstantsOf(OwnRows, args)))

OwnSnapshot(pair) == Snapshot(OwnRows, args.run_id, pair[1], pair[2])

\* The run's own telemetry has every vehicle on a lane.
OwnFaultFree ==
    \A pair \in OwnPairs : \A v \in DOMAIN OwnSnapshot(pair) :
        EdgeLookupFind(OwnSnapshot(pair)[v].curr_pos) # ValueError

\* The records detection emits from the run's own telemetry alone.
OwnRecords ==
    UNION {LET snap == OwnSnapshot(pair)
           IN  {CollisionRow(w, v, pair[2], EdgeLookupFind(snap[v].curr_pos).lane_id) :
                   <<v, w>> \in {vw \in (DOMAIN snap) \X (DOMAIN snap) :
                       /\ vw[1] # vw[2]
                       /\ vw[2] \in ProximityFind(SnapshotEnd(snap), snap[vw[1]].curr_pos,
                                                  snap[vw[1]].speed * args.ttc)
                       /\ EdgeLookupFind(snap[vw[1]].curr_pos).lane_id
                             = EdgeLookupFind(snap[vw[2]].curr_pos).lane_id
                       /\ is_following(snap[vw[1]].prev_pos, snap[vw[1]].curr_pos,
                                       snap[vw[2]].prev_pos, snap[vw[2]].curr_pos)}}
             : pair \in OwnPairs}

\* C14: detection for run R depends only on R's telemetry: with the bounds
\* configured and no import committed meanwhile, a completed run processed,
\* among the pairs whose Snapshot has a vehicle, exactly those of R's own
\* instants, and emitted exactly the records R's own telemetry gives,
\* whatever rows other runs have.
C14_DependsOnlyOnOwnRun ==
    (pc = "done" /\ ~changed /\ OwnFaultFree) =>
        /\ {processed[j] : j \in {i \in 1..Len(processed) : DOMAIN PairSnapshot(i) # {}}}
              = {pair \in OwnPairs : DOMAIN OwnSnapshot(pair) # {}}
        /\ emitted = OwnRecords

=============================================================================
